---- MODULE Spec2Model ----
(***************************************************************************)
(* Model of the availability backend: the load calculator                  *)
(* (calculate_hours, calculate_load), the TTL directory cache and its      *)
(* lookups, the availability engine and the two-round conversation         *)
(* orchestrator of src/functions.py, with the request boundary of          *)
(* src/main.py.                                                            *)
(*                                                                         *)
(* Strings are sequences of one-character strings, so that lower(),        *)
(* join(), str() and the f-string formatting are computed and not assumed. *)
(* A date string 'YYYY-MM-DD' is the triple <<y, m, d>>.                   *)
(***************************************************************************)
EXTENDS Integers, Sequences, FiniteSets, TLC

VARIABLES
    now,      \* the cache timer (time.monotonic), in ticks
    cache,    \* the process-wide TTLCache: key -> [value, expires]
    geLog,    \* the last get_employees() calls, see LogPush
    req,      \* the HTTP request in progress and its response
    q,        \* the frame of the availability function in progress
    g,        \* the frame of GPT_conversation
    threads,  \* concurrent callers of get_employees()
    pure      \* inputs and results of the load calculator taken alone

vars == <<now, cache, geLog, req, q, g, threads, pure>>

(***************************************************************************)
(* Bounds of the model.                                                    *)
(***************************************************************************)
MaxTime == 3        \* ticks of the cache timer
TTL == 2            \* CACHE_TTL, in ticks
MaxToolCalls == 2   \* tool calls in one completion
NThreads == 2       \* concurrent callers
LastDay == 8        \* the July days 1 .. LastDay of the date window

(***************************************************************************)
(* Dates: datetime.strptime(s, '%Y-%m-%d') puts a date string on the       *)
(* proleptic Gregorian day line (date.toordinal), weekday() is Monday = 0. *)
(***************************************************************************)
IsLeap(y) == (y % 4 = 0) /\ ((y % 100 # 0) \/ (y % 400 = 0))

DaysInMonth(y, m) ==
    IF m = 2 THEN (IF IsLeap(y) THEN 29 ELSE 28)
    ELSE IF m \in {4, 6, 9, 11} THEN 30 ELSE 31

DaysBeforeYear(y) ==
    (y - 1) * 365 + ((y - 1) \div 4) - ((y - 1) \div 100) + ((y - 1) \div 400)

RECURSIVE DaysBeforeMonth(_, _)
DaysBeforeMonth(y, m) ==
    IF m = 1 THEN 0 ELSE DaysBeforeMonth(y, m - 1) + DaysInMonth(y, m - 1)

\* datetime.strptime(date, '%Y-%m-%d'), as the day number of the date
strptime(date) == DaysBeforeYear(date[1]) + DaysBeforeMonth(date[1], date[2]) + date[3]

\* datetime.weekday(): Monday = 0 ... Sunday = 6
weekday(ord) == (ord + 6) % 7

\* the while loop of calculate_hours: current_date runs up to to_date included
RECURSIVE HoursLoop(_, _, _)
RECURSIVE HoursLoopExclusive(_, _, _)
HoursLoopExclusive(current_date, to_date, total_hours) ==
    IF current_date < to_date
    THEN HoursLoopExclusive(current_date + 1, to_date,
                   IF weekday(current_date) < 5 THEN total_hours + 8 ELSE total_hours)
    ELSE total_hours
HoursLoop(current_date, to_date, total_hours) ==
    IF current_date <= to_date
    THEN HoursLoop(current_date + 1, to_date,
                   IF weekday(current_date) < 5 THEN total_hours + 8 ELSE total_hours)
    ELSE total_hours

calculate_hours(from_date, to_date) ==
    LET f == strptime(from_date)
        t == strptime(to_date)
    IN  IF f > t THEN 0 ELSE HoursLoop(f, t, 0)

(***************************************************************************)
(* Python floats.  A non-negative double is [m, e]: m the 53 bits of the   *)
(* significand as six limbs, most significant first (the first limb holds  *)
(* 3 bits, the others 10 bits each), e the exponent of the leading bit;    *)
(* zero is [m |-> <<>>, e |-> 0].  Division and multiplication round to    *)
(* nearest, ties to even, as IEEE 754 binary64 does.                       *)
(***************************************************************************)
FZero == [m |-> <<>>, e |-> 0]

RECURSIVE Pow2(_)
Pow2(n) == IF n = 0 THEN 1 ELSE 2 * Pow2(n - 1)

Limb == Pow2(10)

\* scale a / b into [1, 2): <<A, B, e>> with A / B = (a / b) / 2^e
RECURSIVE FNorm(_, _, _)
FNorm(a, b, e) ==
    IF a < b THEN FNorm(2 * a, b, e - 1)
    ELSE IF a >= 2 * b THEN FNorm(a, 2 * b, e + 1)
    ELSE <<a, b, e>>

\* long division: n more 10-bit quotient limbs of r / b, then the remainder
RECURSIVE FDivLimbs(_, _, _, _)
FDivLimbs(r, b, n, acc) ==
    IF n = 0 THEN <<acc, r>>
    ELSE FDivLimbs((r * Limb) % b, b, n - 1, Append(acc, (r * Limb) \div b))

\* significand + 1, limb by limb; the first limb may leave its 3 bits
RECURSIVE FInc(_)
FInc(m) ==
    LET n == Len(m)
    IN  IF n = 1 THEN <<m[1] + 1>>
        ELSE IF m[n] + 1 < Limb THEN Append(SubSeq(m, 1, n - 1), m[n] + 1)
        ELSE Append(FInc(SubSeq(m, 1, n - 1)), 0)

\* round a significand up: when it reaches 2^53 the exponent moves
FRoundUp(m, e) ==
    LET i == FInc(m)
    IN  IF i[1] = 8 THEN [m |-> <<4, 0, 0, 0, 0, 0>>, e |-> e + 1]
        ELSE [m |-> i, e |-> e]

\* int / int true division, correctly rounded
FDiv(a, b) ==
    IF a = 0 THEN FZero
    ELSE LET n == FNorm(a, b, 0)
             d == FDivLimbs((4 * n[1]) % n[2], n[2], 5, <<(4 * n[1]) \div n[2]>>)
             m == d[1]
             r == d[2]
         IN  IF (2 * r > n[2]) \/ (2 * r = n[2] /\ m[6] % 2 = 1)
             THEN FRoundUp(m, n[3])
             ELSE [m |-> m, e |-> n[3]]

\* m * k, limb by limb from the last; the first limb takes the carry
RECURSIVE FMulLimbs(_, _, _)
FMulLimbs(m, k, carry) ==
    LET n == Len(m)
        t == m[n] * k + carry
    IN  IF n = 1 THEN <<t>>
        ELSE Append(FMulLimbs(SubSeq(m, 1, n - 1), k, t \div Limb), t % Limb)

\* float * 100: the exact product, rounded back to 53 bits
FMul100(x) ==
    IF x.m = <<>> THEN FZero
    ELSE LET p == FMulLimbs(x.m, 100, 0)
             \* 400 <= p[1] <= 799: the product has 59 or 60 bits, s to drop
             s == IF p[1] >= 512 THEN 7 ELSE 6
             lo == Pow2(s)
             hi == Pow2(10 - s)
             top == [i \in 1..6 |->
                       IF i = 1 THEN p[1] \div lo
                       ELSE (p[i] \div lo) + (p[i - 1] % lo) * hi]
             rest == p[6] % lo
             half == Pow2(s - 1)
             e == x.e + s
         IN  IF rest > half \/ (rest = half /\ top[6] % 2 = 1)
             THEN FRoundUp(top, e)
             ELSE [m |-> top, e |-> e]

\* int(float): truncation toward zero (for values below 2^23)
FTrunc(x) ==
    IF x.m = <<>> \/ x.e < 0 THEN 0
    ELSE (x.m[1] * Limb * Limb + x.m[2] * Limb + x.m[3]) \div Pow2(22 - x.e)


(***************************************************************************)
(* Python values are tagged: an int, a float, a str, a list, a dict, None. *)
(***************************************************************************)
PyInt(n)   == [ty |-> "int", v |-> n]
PyFloat(x) == [ty |-> "float", v |-> x]
PyStr(s)   == [ty |-> "str", v |-> s]
PyList(l)  == [ty |-> "list", v |-> l]
PyDict(d)  == [ty |-> "dict", v |-> d]
PyNone     == [ty |-> "None", v |-> 0]

calculate_load(load_hours, from_date, to_date) ==
    LET total_work_hours == calculate_hours(from_date, to_date)
    IN  IF total_work_hours = 0 THEN PyInt(0)
        ELSE PyFloat(FMul100(FDiv(load_hours, total_work_hours)))


(***************************************************************************)
(* Strings: str.lower(), ' '.join, str(int) and f-string formatting.       *)
(***************************************************************************)
UpperAlpha == <<"A", "B", "C", "D", "E", "F", "G", "H", "I", "J", "K", "L", "M", "N", "O", "P", "Q", "R", "S", "T", "U", "V", "W", "X", "Y", "Z">>
LowerAlpha == <<"a", "b", "c", "d", "e", "f", "g", "h", "i", "j", "k", "l", "m", "n", "o", "p", "q", "r", "s", "t", "u", "v", "w", "x", "y", "z">>
DigitChars == <<"0", "1", "2", "3", "4", "5", "6", "7", "8", "9">>

LowerCh(c) ==
    IF \E i \in 1..Len(UpperAlpha) : UpperAlpha[i] = c
    THEN LowerAlpha[CHOOSE i \in 1..Len(UpperAlpha) : UpperAlpha[i] = c]
    ELSE c

\* str.lower()
lower(s) == [i \in 1..Len(s) |-> LowerCh(s[i])]

\* ' '.join([a, b])
join2(a, b) == a \o <<" ">> \o b

RECURSIVE NatStr(_)
NatStr(n) ==
    IF n < 10 THEN <<DigitChars[n + 1]>>
    ELSE Append(NatStr(n \div 10), DigitChars[(n % 10) + 1])

\* str(n) for an int
IntStr(n) == IF n < 0 THEN <<"-">> \o NatStr(0 - n) ELSE NatStr(n)

\* repr of a float: 0.0 prints "0.0"; an integral value prints with ".0".
\* Fraction digits are not modelled: the only float the program formats is
\* calculate_load(0, ...), which is 0.0.
FloatStr(x) ==
    IF x.m = <<>> THEN <<"0", ".", "0">> ELSE IntStr(FTrunc(x)) \o <<".", "0">>

\* what f'{value}' prints
Format(value) ==
    CASE value.ty = "int"   -> IntStr(value.v)
      [] value.ty = "float" -> FloatStr(value.v)
      [] value.ty = "str"   -> value.v
      [] OTHER              -> <<"N", "o", "n", "e">>

\* int(value) for a number
int(value) == IF value.ty = "float" THEN FTrunc(value.v) ELSE value.v

(***************************************************************************)
(* The upstream planning API.  GET /planningboard/employees serves one of  *)
(* the listings below (the directory changes over time); GET /planningboard/ *)
(* serves one of the planning maps below, whatever the range asked.        *)
(***************************************************************************)
Employee(id, name, surname, tags) ==
    [id |-> id, name |-> name, surname |-> surname, tags |-> tags]

Directories == <<
    << Employee(1, <<"A", "l">>, <<"B", "o">>, <<<<"T", "e", "c", "h">>>>),
       Employee(2, <<"C", "y">>, <<"D", "i">>, <<<<"T", "e", "c", "h">>, <<"O", "p", "s">>>>) >>,
    << Employee(2, <<"C", "y">>, <<"D", "i">>, <<<<"O", "p", "s">>>>),
       Employee(3, <<"E", "d">>, <<"F", "y">>, <<<<"T", "e", "c", "h">>>>) >> >>

\* key: str(employee id); value: the hours of the employee's slots
Plannings == {
    << >>,
    (IntStr(1) :> <<40, 6>>) @@ (IntStr(2) :> <<8>>) }

PlanKeys(plan) == DOMAIN plan

\* the strings a caller passes as a practice or as an employee name
QueryStrings == { <<"t", "e", "c", "h">>, <<"a", "l", " ", "b", "o">> }

Mon == <<2024, 7, 1>>
Fri == <<2024, 7, 5>>
Sat == <<2024, 7, 6>>
Sun == <<2024, 7, 7>>

\* the date ranges a caller passes: a working week, a weekend, one Monday
Ranges == { <<Mon, Fri>>, <<Sat, Sun>>, <<Mon, Mon>> }

(***************************************************************************)
(* cache = TTLCache(maxsize=128, ttl=CACHE_TTL), shared by the four        *)
(* @cached functions.  The key of a call is the tuple of its arguments:   *)
(* empty for get_employees(), the one argument otherwise, so a practice    *)
(* name and an employee name that are the same string are the same key.    *)
(* The key set of the model stays below maxsize: nothing is evicted for    *)
(* room.                                                                   *)
(***************************************************************************)
KeyAll    == [n |-> 0, ty |-> "none", s |-> <<>>, i |-> 0]
KeyStr(s) == [n |-> 1, ty |-> "str", s |-> s, i |-> 0]
KeyInt(i) == [n |-> 1, ty |-> "int", s |-> <<>>, i |-> i]

\* TTLCache.__getitem__: a key is served while timer() < expires
LiveAtExpiry(c, k, t) == k \in DOMAIN c /\ t <= c[k].expires
Live(c, k, t) == k \in DOMAIN c /\ t < c[k].expires

\* TTLCache.expire(): drop what has expired
Expire(c, t) ==
    LET keep == {k \in DOMAIN c : t < c[k].expires}
    IN  [k \in keep |-> c[k]]

\* TTLCache.__setitem__ (the cache[k] = v of @cached): expire, then store
\* with expires = timer() + ttl
CacheSet(c, k, v, t) ==
    LET e == Expire(c, t)
    IN  [x \in DOMAIN e \cup {k} |-> IF x = k THEN [value |-> v, expires |-> t + TTL] ELSE e[x]]

(***************************************************************************)
(* The bodies of the three derived lookups, given the listing.             *)
(***************************************************************************)
\* get_employees_from_practice: one id per matching tag, in listing order
RECURSIVE TagMatches(_, _, _)
TagMatches(tags, practice, id) ==
    IF tags = <<>> THEN <<>>
    ELSE (IF lower(Head(tags)) = practice THEN <<id>> ELSE <<>>)
         \o TagMatches(Tail(tags), practice, id)

RECURSIVE PracticeLoop(_, _)
PracticeLoop(data, practice) ==
    IF data = <<>> THEN <<>>
    ELSE TagMatches(Head(data).tags, practice, Head(data).id)
         \o PracticeLoop(Tail(data), practice)

FromPractice(employees, practice) ==
    PyList(PracticeLoop(employees, lower(practice)))

\* get_employee_by_name: the id of the first match, else -1
RECURSIVE NameLoop(_, _)
NameLoop(data, name) ==
    IF data = <<>> THEN PyInt(-1)
    ELSE IF name = lower(join2(Head(data).name, Head(data).surname))
         THEN PyInt(Head(data).id)
         ELSE NameLoop(Tail(data), name)

ByName(employees, name) == NameLoop(employees, lower(name))

\* get_employee_name_by_id: the full name of the first match, else -1
RECURSIVE IdLoop(_, _)
IdLoop(data, employee_id) ==
    IF data = <<>> THEN PyInt(-1)
    ELSE IF employee_id = Head(data).id
         THEN PyStr(join2(Head(data).name, Head(data).surname))
         ELSE IdLoop(Tail(data), employee_id)

NameById(employees, employee_id) == IdLoop(employees, employee_id)

\* the three lookups by kind: their cache key and their body
KeyOf(kind, arg) == IF kind = "name_by_id" THEN KeyInt(arg) ELSE KeyStr(arg)

Body(kind, employees, arg) ==
    CASE kind = "practice"   -> FromPractice(employees, arg)
      [] kind = "by_name"    -> ByName(employees, arg)
      [] kind = "name_by_id" -> NameById(employees, arg)

\* a get_employees() call, for the log: when, whether it fetched, whether
\* the fetch succeeded, and the expiry of the entry it served or stored
GeCall(t, fetched, ok, expires) ==
    [t |-> t, fetched |-> fetched, ok |-> ok, expires |-> expires]

\* the log keeps the last call and, of the call before it, what the entry
\* it left in the cache was: <<[ok, expires], last call>>
LogPush(log, call) ==
    IF log = <<>> THEN <<call>>
    ELSE << [ok |-> log[Len(log)].ok, expires |-> log[Len(log)].expires], call >>

\* A @cached derived lookup, up to the point where it needs the network:
\* the key is served from the cache; else get_employees() is called and,
\* if the listing is cached, the body runs and its result is stored.
\* need: the listing must be fetched first.
Lookup(c, log, t, kind, arg) ==
    LET k == KeyOf(kind, arg)
    IN  IF Live(c, k, t)
        THEN [need |-> FALSE, v |-> c[k].value, c |-> c, log |-> log]
        ELSE IF Live(c, KeyAll, t)
        THEN LET v == Body(kind, c[KeyAll].value.v, arg)
             IN  [need |-> FALSE, v |-> v, c |-> CacheSet(c, k, v, t),
                  log |-> LogPush(log, GeCall(t, FALSE, TRUE, c[KeyAll].expires))]
        ELSE [need |-> TRUE, v |-> PyNone, c |-> c, log |-> log]

\* The same lookup resumed when the listing arrives with status 200:
\* get_employees() stores it, the body runs on it, the result is stored.
Resume(c, log, t, t0, kind, arg, employees) ==
    LET c1 == CacheSet(c, KeyAll, PyDict(employees), t)
        v  == Body(kind, employees, arg)
    IN  [need |-> FALSE, v |-> v, c |-> CacheSet(c1, KeyOf(kind, arg), v, t),
         log |-> LogPush(log, GeCall(t0, TRUE, TRUE, t + TTL))]

(***************************************************************************)
(* The availability engine.  A frame holds the locals of the function in   *)
(* progress; it runs atomically from one network call to the next.         *)
(*   pc: "idle", "dir" (GET /planningboard/employees is out),              *)
(*       "plan" (GET /planningboard/ is out), "returned", "raised"         *)
(*   at: the derived lookup that waits for the listing                     *)
(*   nDir, nPlan: the fetches of each endpoint answered in this call,      *)
(*   nFail: those answered with a status other than 200                    *)
(***************************************************************************)
QIdle ==
    [fn |-> "none", pc |-> "idle", at |-> "none", arg |-> <<>>, rng |-> <<Mon, Mon>>,
     emps |-> PyNone, id |-> PyNone, plan |-> << >>, i |-> 0, out |-> <<>>,
     ret |-> PyNone, exc |-> "none", nDir |-> 0, nPlan |-> 0, nFail |-> 0, geT |-> 0]

Returns(f, value) == [f EXCEPT !.pc = "returned", !.ret = value]
Raises(f, exc)    == [f EXCEPT !.pc = "raised", !.exc = exc]
AwaitDir(f, kind, t) == [f EXCEPT !.pc = "dir", !.at = kind, !.geT = t]

RECURSIVE Sum(_)
Sum(slots) == IF slots = <<>> THEN 0 ELSE Head(slots) + Sum(Tail(slots))

Percent(n) == PyStr(IntStr(n) \o <<"%">>)

\* the record check_availability appends for one employee (lines 286-307)
PracticeRecord(name, employee_id, plan, rng) ==
    IF IntStr(employee_id) \notin PlanKeys(plan)
    THEN ("name" :> name) @@
         ("amount" :> PyStr(Format(calculate_load(0, rng[1], rng[2])) \o <<"%">>))
    ELSE LET total_amount == Sum(plan[IntStr(employee_id)])
             amount_occupied == int(calculate_load(total_amount, rng[1], rng[2]))
         IN  ("name" :> name) @@
             ("amount_occupied" :> Percent(amount_occupied)) @@
             ("amount_free" :> Percent(100 - amount_occupied))

\* the for loop of check_availability from employee f.i on, until the
\* listing is needed for a name or the list is exhausted
RECURSIVE CALoop(_, _, _, _)
CALoop(f, c, log, t) ==
    IF f.i > Len(f.emps.v)
    THEN [f |-> Returns(f, PyList(f.out)), c |-> c, log |-> log]
    ELSE LET employee_id == f.emps.v[f.i]
             r == Lookup(c, log, t, "name_by_id", employee_id)
         IN  IF r.need
             THEN [f |-> AwaitDir(f, "name_by_id", t), c |-> c, log |-> log]
             ELSE CALoop([f EXCEPT !.i = @ + 1,
                                   !.out = Append(@, PracticeRecord(r.v, employee_id,
                                                                    f.plan, f.rng))],
                         r.c, r.log, t)

\* check_availability after get_plannings returned: iterate the employees
CAIterate(f, c, log, t) ==
    IF f.emps.ty # "list"
    THEN [f |-> Raises(f, "TypeError"), c |-> c, log |-> log]
    ELSE CALoop([f EXCEPT !.i = 1, !.out = <<>>], c, log, t)

\* check_availability from its first line to its first network call
CAStart(practice, rng, c, log, t) ==
    LET f == [QIdle EXCEPT !.fn = "check_availability", !.arg = practice, !.rng = rng]
        r == Lookup(c, log, t, "practice", practice)
    IN  IF r.need
        THEN [f |-> AwaitDir(f, "practice", t), c |-> c, log |-> log]
        ELSE [f |-> [f EXCEPT !.emps = r.v, !.pc = "plan"], c |-> r.c, log |-> r.log]

NotFound == PyDict("error" :> PyStr(<<"E", "m", "p", "l", "o", "y", "e", "e", " ", "n", "o", "t", " ", "f", "o", "u", "n", "d", ".">>))

\* check_employee_availability once get_employee_by_name returned (340-343)
CEAAfterId(f, employee_id) ==
    IF employee_id.ty # "int" THEN Raises(f, "TypeError")
    ELSE IF employee_id.v < 0 THEN Returns(f, NotFound)
    ELSE [f EXCEPT !.id = employee_id, !.pc = "plan"]

CEAStart(employee_name, rng, c, log, t) ==
    LET f == [QIdle EXCEPT !.fn = "check_employee_availability",
                           !.arg = employee_name, !.rng = rng]
        r == Lookup(c, log, t, "by_name", employee_name)
    IN  IF r.need
        THEN [f |-> AwaitDir(f, "by_name", t), c |-> c, log |-> log]
        ELSE [f |-> CEAAfterId(f, r.v), c |-> r.c, log |-> r.log]

\* check_employee_availability after get_plannings returned (346-365)
EmployeeRecord(employee_name, employee_id, plan, rng) ==
    IF IntStr(employee_id) \notin PlanKeys(plan)
    THEN ("name" :> PyStr(employee_name)) @@
         ("amount_occupied" :> PyStr(<<"0", "%">>)) @@
         ("amount_free" :> PyStr(<<"1", "0", "0", "%">>))
    ELSE LET total_amount == Sum(plan[IntStr(employee_id)])
             amount_occupied == int(calculate_load(total_amount, rng[1], rng[2]))
         IN  ("name" :> PyStr(employee_name)) @@
             ("amount_occupied" :> Percent(amount_occupied)) @@
             ("amount_free" :> Percent(100 - amount_occupied))

\* requests.get answered with a status other than 200: HTTPError is raised
\* out of get_employees / get_plannings and out of every caller up to the
\* route; nothing is stored and nothing is tried again
FetchFailedRetry(f) == [f EXCEPT !.nFail = @ + 1]
FetchFailed(f) == Raises([f EXCEPT !.nFail = @ + 1], "HTTPError")

\* the frame when the listing arrives: status 200 resumes the waiting
\* lookup, any other status raises HTTPError out of get_employees (134-137)
OnDirectory(f, c, log, t, status, employees) ==
    LET f1 == [f EXCEPT !.nDir = @ + 1]
    IN  IF status # 200
        THEN [f |-> FetchFailed(f1), c |-> c,
              log |-> LogPush(log, GeCall(f.geT, TRUE, FALSE, 0))]
        ELSE IF f.at = "practice"
        THEN LET r == Resume(c, log, t, f.geT, "practice", f.arg, employees)
             IN  [f |-> [f1 EXCEPT !.emps = r.v, !.pc = "plan"], c |-> r.c, log |-> r.log]
        ELSE IF f.at = "by_name"
        THEN LET r == Resume(c, log, t, f.geT, "by_name", f.arg, employees)
             IN  [f |-> CEAAfterId(f1, r.v), c |-> r.c, log |-> r.log]
        ELSE LET employee_id == f.emps.v[f.i]
                 r == Resume(c, log, t, f.geT, "name_by_id", employee_id, employees)
             IN  CALoop([f1 EXCEPT !.pc = "loop", !.i = @ + 1,
                                   !.out = Append(@, PracticeRecord(r.v, employee_id,
                                                                    f.plan, f.rng))],
                        r.c, r.log, t)

\* the frame when the planning map arrives: get_plannings raises HTTPError
\* on any status but 200 (245-248)
OnPlanning(f, c, log, t, status, plan) ==
    LET f1 == [f EXCEPT !.nPlan = @ + 1]
    IN  IF status # 200
        THEN [f |-> FetchFailed(f1), c |-> c, log |-> log]
        ELSE IF f.fn = "check_availability"
        THEN CAIterate([f1 EXCEPT !.plan = plan], c, log, t)
        ELSE [f |-> Returns([f1 EXCEPT !.plan = plan],
                            PyList(<<EmployeeRecord(f.arg, f.id.v, plan, f.rng)>>)),
              c |-> c, log |-> log]

(***************************************************************************)
(* The conversation orchestrator, GPT_conversation.                        *)
(* A tool call is [id, name, arguments]; arguments is JSON text, here its  *)
(* tokens.  json.loads accepts an object of string members and fails on    *)
(* anything else.                                                          *)
(***************************************************************************)
Tok(k)      == [k |-> k, v |-> <<>>]
TokStr(v)   == [k |-> "str", v |-> v]

\* the JSON text { "k1": v1, "k2": v2, "k3": v3 }
JsonText(k1, v1, k2, v2, k3, v3) ==
    << Tok("{"), TokStr(k1), Tok(":"), TokStr(v1), Tok(","),
       TokStr(k2), Tok(":"), TokStr(v2), Tok(","),
       TokStr(k3), Tok(":"), TokStr(v3), Tok("}") >>

JsonFail == [ok |-> FALSE, v |-> << >>]

\* members: "key" : "value" ( , "key" : "value" )*
RECURSIVE JsonMembers(_, _)
JsonMembers(toks, acc) ==
    IF Len(toks) < 3 \/ toks[1].k # "str" \/ toks[2].k # ":" \/ toks[3].k # "str"
    THEN JsonFail
    ELSE LET d == (toks[1].v :> toks[3].v) @@ acc
         IN  IF Len(toks) = 3 THEN [ok |-> TRUE, v |-> d]
             ELSE IF toks[4].k # "," THEN JsonFail
             ELSE JsonMembers(SubSeq(toks, 5, Len(toks)), d)

\* json.loads(text): ok and the dict, or not ok (JSONDecodeError)
JsonLoads(toks) ==
    IF Len(toks) < 2 \/ toks[1].k # "{" \/ toks[Len(toks)].k # "}" THEN JsonFail
    ELSE IF Len(toks) = 2 THEN [ok |-> TRUE, v |-> << >>]
    ELSE JsonMembers(SubSeq(toks, 2, Len(toks) - 1), << >>)

\* dict.get(key): the value, or None
Get(d, key) == IF key \in DOMAIN d THEN d[key] ELSE PyNone

\* the argument payloads the model may send
ArgsPractice == JsonText("practice", <<"t", "e", "c", "h">>, "from_date", Mon, "to_date", Fri)
ArgsEmployee == JsonText("employee_name", <<"a", "l", " ", "b", "o">>, "from_date", Mon, "to_date", Mon)
ArgsNobody   == JsonText("employee_name", <<"t", "e", "c", "h">>, "from_date", Mon, "to_date", Fri)
ArgsCut      == SubSeq(ArgsPractice, 1, Len(ArgsPractice) - 1)

\* what a requested tool call may be: its function name and its payload
ToolRequests == {
    [name |-> "check_availability", arguments |-> ArgsPractice],
    [name |-> "check_employee_availability", arguments |-> ArgsEmployee],
    [name |-> "check_employee_availability", arguments |-> ArgsNobody],
    [name |-> "check_employee_availability_by_jobtitle", arguments |-> ArgsPractice],
    [name |-> "check_availability", arguments |-> ArgsCut] }

\* the i-th tool call of a response carries the id call_i
CallId(i) == <<"c", "a", "l", "l", "_">> \o IntStr(i)

ToolCalls(n) ==
    { [i \in 1..n |-> [id |-> CallId(i), name |-> s[i].name, arguments |-> s[i].arguments]] :
        s \in [1..n -> ToolRequests] }

\* the first completion: plain text, or 1 .. MaxToolCalls tool calls
FirstResponses ==
    { [role |-> "assistant", content |-> PyStr(<<"h", "e", "l", "l", "o">>), tool_calls |-> <<>>] }
    \cup { [role |-> "assistant", content |-> PyNone, tool_calls |-> tc] :
             tc \in UNION { ToolCalls(n) : n \in 1..MaxToolCalls } }

\* tools = [openai_func_check_availability, openai_func_check_employee_availability]
tools == << "check_availability", "check_employee_availability" >>

\* available_functions
available_functions == { "check_availability", "check_employee_availability" }

NoRequest == [sent |-> FALSE, messages |-> <<>>, tools |-> <<>>]
Request(messages, offered) == [sent |-> TRUE, messages |-> messages, tools |-> offered]

\* pc: "idle", "first" (first completion is out), "tool" (a tool function
\* waits for the network), "second" (second completion is out),
\* "returned", "raised"
GIdle ==
    [pc |-> "idle", first |-> NoRequest, second |-> NoRequest, initial |-> <<>>,
     response |-> [role |-> "assistant", content |-> PyNone, tool_calls |-> <<>>],
     messages |-> <<>>, k |-> 0, ret |-> PyNone, exc |-> "none"]

GRaises(gf, exc) == [gf EXCEPT !.pc = "raised", !.exc = exc]

\* Allocation(name, amount_free, amount_occupied).toString()
toString(name, amount_free, amount_occupied) ==
    Format(name) \o <<" ", "A", "m", "o", "u", "n", "t", " ", "f", "r", "e", "e", ":", " ">> \o Format(amount_free)
        \o <<" ", "|", " ", "A", "m", "o", "u", "n", "t", " ", "o", "c", "c", "u", "p", "i", "e", "d", ":", " ">> \o Format(amount_occupied)

\* "\n".join(lines)
RECURSIVE JoinLines(_)
JoinLines(lines) ==
    IF lines = <<>> THEN <<>>
    ELSE IF Len(lines) = 1 THEN lines[1]
    ELSE lines[1] \o <<"\n">> \o JoinLines(Tail(lines))

\* lines 433-439: one display line per record of the function's response
ResponseToStr(function_response) ==
    JoinLines([i \in 1..Len(function_response) |->
                 toString(Get(function_response[i], "name"),
                          Get(function_response[i], "amount_free"),
                          Get(function_response[i], "amount_occupied"))])

\* a tool message that carries the id of the first call whatever the call
ToolMessageFirstId(tool_call, content) ==
    [tool_call_id |-> CallId(1), role |-> "tool", name |-> tool_call.name,
     content |-> content]

\* lines 442-449: the tool result message of a call
ToolMessage(tool_call, content) ==
    [tool_call_id |-> tool_call.id, role |-> "tool", name |-> tool_call.name,
     content |-> content]

\* GPT_conversation from the top of the for loop at tool call gf.k (GLoop)
\* and from the return of the tool function (GAfter), up to the next
\* network call.  qf is the frame of the tool function.
RECURSIVE GLoop(_, _, _, _, _)
RECURSIVE GAfter(_, _, _, _, _)
\* a loop that steps over a call it cannot dispatch instead of raising
GLoopLenient(gf, qf, c, log, t) ==
    IF gf.k > Len(gf.response.tool_calls)
    THEN [g |-> [gf EXCEPT !.pc = "second", !.second = Request(gf.messages, <<>>)],
          q |-> qf, c |-> c, log |-> log]
    ELSE LET tool_call == gf.response.tool_calls[gf.k]
             function_args == JsonLoads(tool_call.arguments)
         IN  IF tool_call.name \notin available_functions \/ ~function_args.ok
             THEN GLoop([gf EXCEPT !.k = @ + 1], qf, c, log, t)
             ELSE LET rng == << function_args.v["from_date"], function_args.v["to_date"] >>
                      s == IF tool_call.name = "check_availability"
                           THEN CAStart(function_args.v["practice"], rng, c, log, t)
                           ELSE CEAStart(function_args.v["employee_name"], rng, c, log, t)
                  IN  GAfter([gf EXCEPT !.pc = "tool"], s.f, s.c, s.log, t)

GLoop(gf, qf, c, log, t) ==
    IF gf.k > Len(gf.response.tool_calls)
    THEN [g |-> [gf EXCEPT !.pc = "second", !.second = Request(gf.messages, <<>>)],
          q |-> qf, c |-> c, log |-> log]
    ELSE LET tool_call == gf.response.tool_calls[gf.k]
             function_args == JsonLoads(tool_call.arguments)
         IN  IF tool_call.name \notin available_functions
             THEN [g |-> GRaises(gf, "KeyError"), q |-> qf, c |-> c, log |-> log]
             ELSE IF ~function_args.ok
             THEN [g |-> GRaises(gf, "JSONDecodeError"), q |-> qf, c |-> c, log |-> log]
             ELSE LET rng == << function_args.v["from_date"], function_args.v["to_date"] >>
                      s == IF tool_call.name = "check_availability"
                           THEN CAStart(function_args.v["practice"], rng, c, log, t)
                           ELSE CEAStart(function_args.v["employee_name"], rng, c, log, t)
                  IN  GAfter([gf EXCEPT !.pc = "tool"], s.f, s.c, s.log, t)

GAfter(gf, qf, c, log, t) ==
    IF qf.pc \in {"dir", "plan"}
    THEN [g |-> gf, q |-> qf, c |-> c, log |-> log]
    ELSE IF qf.pc = "raised"
    THEN [g |-> GRaises(gf, qf.exc), q |-> qf, c |-> c, log |-> log]
    ELSE IF qf.ret.ty # "list"
    THEN \* iterating the error dict yields its keys: str has no get()
         [g |-> GRaises(gf, "AttributeError"), q |-> qf, c |-> c, log |-> log]
    ELSE LET tool_call == gf.response.tool_calls[gf.k]
             message == ToolMessage(tool_call, ResponseToStr(qf.ret.v))
         IN  GLoop([gf EXCEPT !.messages = Append(@, message), !.k = @ + 1],
                   qf, c, log, t)

\* strftime("%Y-%m-%d")
Pad2(n) == IF n < 10 THEN <<"0">> \o IntStr(n) ELSE IntStr(n)
DateStr(date) == IntStr(date[1]) \o <<"-">> \o Pad2(date[2]) \o <<"-">> \o Pad2(date[3])

\* lines 372-385: the prompt with the year, the date and the directive
UserMessage(prompt, today) ==
    [role |-> "user",
     content |-> prompt \o <<" ">> \o <<"\n">> \o <<" ", "I", "f", " ", "n", "o", " ", "y", "e", "a", "r", " ", "i", "s", " ", "s", "p", "e", "c", "i", "f", "i", "e", "d", " ", "a", "s", "s", "u", "m", "e", " ", "t", "h", "e", " ", "y", "e", "a", "r", " ", "i", "s", " ">>
                 \o IntStr(today[1]) \o <<" ">> \o <<"\n">> \o <<" ", "T", "o", "d", "a", "y", " ", "i", "s", " ">> \o DateStr(today)
                 \o <<" ">> \o <<"\n">>
                 \o <<" ", "A", "n", "s", "w", "e", "r", " ", "b", "y", " ", "p", "r", "o", "v", "i", "d", "i", "n", "g", " ", "t", "h", "e", " ", "a", "n", "s", "w", "e", "r", " ", "i", "n", " ", "a", " ", "n", "a", "t", "u", "r", "a", "l", " ", "l", "a", "n", "g", "u", "a", "g", "e", " ", "w", "i", "t", "h", "o", "u", "t", " ", "a", "d", "d", "i", "n", "g", " ", "a", "n", "y", " ", "q", "u", "e", "s", "t", "i", "o", "n", "s", " ", "o", "r", " ", "f", "u", "r", "t", "h", "e", "r", " ", "d", "e", "t", "a", "i", "l", "s">>]

GStart(prompt, today) ==
    LET messages == << UserMessage(prompt, today) >>
    IN  [GIdle EXCEPT !.pc = "first", !.initial = messages, !.messages = messages,
                      !.first = Request(messages, tools)]

\* lines 394-410: the first response arrives
GFirst(gf, response, c, log, t) ==
    IF response.tool_calls = <<>>
    THEN \* the function ends without a return statement: None
         [g |-> [gf EXCEPT !.pc = "returned", !.response = response, !.ret = PyNone],
          q |-> QIdle, c |-> c, log |-> log]
    ELSE GLoop([gf EXCEPT !.response = response,
                          !.messages = Append(@, response), !.k = 1],
               QIdle, c, log, t)

(***************************************************************************)
(* The request boundary (src/main.py).                                     *)
(*   req.pc: "none", "run" (the core is at work), "speech" (text-to-speech *)
(*           is out), "done"                                               *)
(***************************************************************************)
ReqNone == [route |-> "none", pc |-> "none", status |-> 0, body |-> PyNone]

Error(message) == PyDict("error" :> PyStr(message))

Answer(route, status, body) ==
    [route |-> route, pc |-> "done", status |-> status, body |-> body]

Running(route) == [route |-> route, pc |-> "run", status |-> 0, body |-> PyNone]

\* /availability once the availability function ended: jsonify(result), or
\* the except clause
AvailabilityAnswer(qf) ==
    IF qf.pc = "returned" THEN Answer("availability", 200, qf.ret)
    ELSE IF qf.pc = "raised" THEN Answer("availability", 500, Error(<<qf.exc>>))
    ELSE Running("availability")

\* /testgpt while GPT_conversation runs and when it ended
TestGptAnswer(gf) ==
    IF gf.pc = "raised" THEN Answer("testgpt", 500, Error(<<gf.exc>>))
    ELSE IF gf.pc = "returned"
    THEN [route |-> "testgpt", pc |-> "speech", status |-> 0, body |-> PyNone]
    ELSE Running("testgpt")

Busy == req.pc \in {"run", "speech"}

\* the query strings a client sends: practice, employee and the dates,
\* each absent (None) or given; one query for each refusal of the route
Queries ==
    { [practice |-> PyStr(s), employee |-> PyNone, dates |-> PyStr(r)] :
        s \in QueryStrings, r \in Ranges }
    \cup { [practice |-> PyNone, employee |-> PyStr(s), dates |-> PyStr(r)] :
        s \in QueryStrings, r \in Ranges }
    \cup { [practice |-> PyStr(<<"t", "e", "c", "h">>), employee |-> PyNone, dates |-> PyNone],
           [practice |-> PyStr(<<"t", "e", "c", "h">>), employee |-> PyStr(<<"a", "l", " ", "b", "o">>),
            dates |-> PyStr(<<Mon, Fri>>)],
           [practice |-> PyNone, employee |-> PyNone, dates |-> PyStr(<<Mon, Fri>>)] }

\* a caller of get_employees(): "idle", "fetch" (its requests.get is out),
\* "returned", "raised"
TIdle == [pc |-> "idle", hit |-> FALSE]

PureIdle == [from_date |-> Mon, to_date |-> Mon, load_hours |-> 0,
             hours |-> 0, load |-> PyNone, done |-> FALSE]

Init ==
    /\ now = 0
    /\ cache = << >>
    /\ geLog = <<>>
    /\ req = ReqNone
    /\ q = QIdle
    /\ g = GIdle
    /\ threads = [i \in 1..NThreads |-> TIdle]
    /\ pure = PureIdle

\* the cache timer advances
Tick ==
    /\ now < MaxTime
    /\ now' = now + 1
    /\ UNCHANGED <<cache, geLog, req, q, g, threads, pure>>

\* GET /availability (main.py 20-46), up to the first network call
Availability ==
    /\ ~Busy
    /\ \E query \in Queries :
         LET practice == query.practice
             employee == query.employee
             dates == query.dates
         IN
         IF dates = PyNone
         THEN /\ req' = Answer("availability", 422,
                    Error(<<"P", "a", "r", "a", "m", "e", "t", "e", "r", "s", " ", "f", "r", "o", "m", "_", "d", "a", "t", "e", ",", " ", "a", "n", "d", " ", "t", "o", "_", "d", "a", "t", "e", " ", "a", "r", "e", " ", "m", "a", "n", "d", "a", "t", "o", "r", "y", ".">>))
              /\ q' = QIdle
              /\ UNCHANGED <<cache, geLog>>
         ELSE IF practice # PyNone /\ employee # PyNone
         THEN /\ req' = Answer("availability", 422,
                    Error(<<"C", "a", "n", "n", "o", "t", " ", "s", "p", "e", "c", "i", "f", "y", " ", "b", "o", "t", "h", " ", "p", "r", "a", "c", "t", "i", "c", "e", " ", "a", "n", "d", " ", "e", "m", "p", "l", "o", "y", "e", "e", ".">>))
              /\ q' = QIdle
              /\ UNCHANGED <<cache, geLog>>
         ELSE IF practice # PyNone
         THEN LET s == CAStart(practice.v, dates.v, cache, geLog, now)
              IN  /\ q' = s.f
                  /\ cache' = s.c
                  /\ geLog' = s.log
                  /\ req' = AvailabilityAnswer(s.f)
         ELSE IF employee # PyNone
         THEN LET s == CEAStart(employee.v, dates.v, cache, geLog, now)
              IN  /\ q' = s.f
                  /\ cache' = s.c
                  /\ geLog' = s.log
                  /\ req' = AvailabilityAnswer(s.f)
         ELSE /\ req' = Answer("availability", 422,
                    Error(<<"M", "u", "s", "t", " ", "s", "p", "e", "c", "i", "f", "y", " ", "e", "i", "t", "h", "e", "r", " ", "p", "r", "a", "c", "t", "i", "c", "e", " ", "o", "r", " ", "e", "m", "p", "l", "o", "y", "e", "e", ".">>))
              /\ q' = QIdle
              /\ UNCHANGED <<cache, geLog>>
    /\ g' = GIdle
    /\ UNCHANGED <<now, threads, pure>>

\* the core goes on after a network answer: the availability function's
\* frame r, then its caller (the route, or the orchestrator's loop)
Continue(r) ==
    IF req.route = "testgpt"
    THEN LET x == GAfter(g, r.f, r.c, r.log, now)
         IN  /\ g' = x.g
             /\ q' = x.q
             /\ cache' = x.c
             /\ geLog' = x.log
             /\ req' = TestGptAnswer(x.g)
    ELSE /\ q' = r.f
         /\ cache' = r.c
         /\ geLog' = r.log
         /\ req' = AvailabilityAnswer(r.f)
         /\ g' = g

\* GET /planningboard/employees is answered
DirectoryResponse ==
    /\ req.pc = "run"
    /\ q.pc = "dir"
    /\ \/ \E v \in 1..Len(Directories) :
            Continue(OnDirectory(q, cache, geLog, now, 200, Directories[v]))
       \/ Continue(OnDirectory(q, cache, geLog, now, 500, <<>>))
    /\ UNCHANGED <<now, threads, pure>>

\* GET /planningboard/?from=..&to=.. is answered
PlanningResponse ==
    /\ req.pc = "run"
    /\ q.pc = "plan"
    /\ \/ \E plan \in Plannings :
            Continue(OnPlanning(q, cache, geLog, now, 200, plan))
       \/ Continue(OnPlanning(q, cache, geLog, now, 500, << >>))
    /\ UNCHANGED <<now, threads, pure>>

\* GET /testgpt (main.py 49-57): GPT_conversation sends the first request
Prompts == { <<"w", "h", "o">> }

TestGpt ==
    /\ ~Busy
    /\ \E prompt \in Prompts : g' = GStart(prompt, Mon)
    /\ q' = QIdle
    /\ req' = Running("testgpt")
    /\ UNCHANGED <<now, cache, geLog, threads, pure>>

\* the first completion is answered, or the call fails
FirstCompletion ==
    /\ req.pc = "run"
    /\ g.pc = "first"
    /\ \/ \E response \in FirstResponses :
            LET x == GFirst(g, response, cache, geLog, now)
            IN  /\ g' = x.g
                /\ q' = x.q
                /\ cache' = x.c
                /\ geLog' = x.log
                /\ req' = TestGptAnswer(x.g)
       \/ /\ g' = GRaises(g, "APIError")
          /\ req' = TestGptAnswer(g')
          /\ UNCHANGED <<q, cache, geLog>>
    /\ UNCHANGED <<now, threads, pure>>

\* the second completion is answered (line 457 returns its text), or fails
SecondCompletion ==
    /\ req.pc = "run"
    /\ g.pc = "second"
    /\ \/ g' = [g EXCEPT !.pc = "returned", !.ret = PyStr(<<"d", "o", "n", "e">>)]
       \/ g' = GRaises(g, "APIError")
    /\ req' = TestGptAnswer(g')
    /\ UNCHANGED <<now, cache, geLog, q, threads, pure>>

\* main.py 59-77: the speech synthesis of the answer succeeds or raises
Speech ==
    /\ req.pc = "speech"
    /\ \/ req' = Answer("testgpt", 200,
                        PyDict(("txt" :> g.ret) @@ ("mp3" :> PyStr(<<"/", "s", "t", "a", "t", "i", "c", "/", "a", "u", "d", "i", "o", "/", "i", "d", ".", "m", "p", "3">>))))
       \/ req' = Answer("testgpt", 500, Error(<<"APIError">>))
    /\ UNCHANGED <<now, cache, geLog, q, g, threads, pure>>


(***************************************************************************)
(* Concurrent callers of get_employees().  @cached(cache) is given no      *)
(* lock: the wrapper reads the cache, calls the function on a miss and     *)
(* stores the result, and other threads run in between.                    *)
(***************************************************************************)
\* the wrapper's cache[k] read: a hit returns, a miss sends requests.get
Call(i) ==
    /\ threads[i].pc = "idle"
    /\ threads' = [threads EXCEPT ![i] =
                      IF Live(cache, KeyAll, now)
                      THEN [pc |-> "returned", hit |-> TRUE]
                      ELSE [pc |-> "fetch", hit |-> FALSE]]
    /\ UNCHANGED <<now, cache, geLog, req, q, g, pure>>

\* requests.get is answered: 200 is stored and returned, else HTTPError
Fetched(i) ==
    /\ threads[i].pc = "fetch"
    /\ \/ \E v \in 1..Len(Directories) :
            /\ cache' = CacheSet(cache, KeyAll, PyDict(Directories[v]), now)
            /\ threads' = [threads EXCEPT ![i].pc = "returned"]
       \/ /\ threads' = [threads EXCEPT ![i].pc = "raised"]
          /\ cache' = cache
    /\ UNCHANGED <<now, geLog, req, q, g, pure>>

\* the caller is done and may call again
Again(i) ==
    /\ threads[i].pc \in {"returned", "raised"}
    /\ threads' = [threads EXCEPT ![i] = TIdle]
    /\ UNCHANGED <<now, cache, geLog, req, q, g, pure>>

(***************************************************************************)
(* The load calculator taken alone, on a window of dates around month and  *)
(* year ends.                                                              *)
(***************************************************************************)
DateWindows == {
    { <<2024, 6, d>> : d \in 28..30 } \cup { <<2024, 7, d>> : d \in 1..LastDay },
    { <<2024, 2, 27>>, <<2024, 2, 28>>, <<2024, 2, 29>>, <<2024, 3, 1>>, <<2024, 3, 2>> },
    { <<2023, 2, 27>>, <<2023, 2, 28>>, <<2023, 3, 1>>, <<2023, 3, 2>> },
    { <<2023, 12, 30>>, <<2023, 12, 31>>, <<2024, 1, 1>>, <<2024, 1, 2>> } }

DatePairs == UNION { W \X W : W \in DateWindows }

LoadHours == {0, 8, 46}

InitPure ==
    /\ now = 0
    /\ cache = << >>
    /\ geLog = <<>>
    /\ req = ReqNone
    /\ q = QIdle
    /\ g = GIdle
    /\ threads = [i \in 1..NThreads |-> TIdle]
    /\ pure \in { [PureIdle EXCEPT !.from_date = p[1], !.to_date = p[2], !.load_hours = h] :
                    p \in DatePairs, h \in LoadHours }

Calculate ==
    /\ ~pure.done
    /\ pure' = [pure EXCEPT !.hours = calculate_hours(pure.from_date, pure.to_date),
                            !.load = calculate_load(pure.load_hours, pure.from_date,
                                                    pure.to_date),
                            !.done = TRUE]
    /\ UNCHANGED <<now, cache, geLog, req, q, g, threads>>

(***************************************************************************)
(* The specifications.                                                     *)
(*   Spec:     the /availability route over the cache, as time passes      *)
(*   SpecGPT:  the /testgpt route (the clock stands still)                 *)
(*   SpecConc: concurrent get_employees() callers                          *)
(*   SpecPure: calculate_hours and calculate_load on their own             *)
(***************************************************************************)
Next ==
    \/ Tick
    \/ Availability
    \/ DirectoryResponse
    \/ PlanningResponse

Spec == Init /\ [][Next]_vars

NextGPT ==
    \/ TestGpt
    \/ FirstCompletion
    \/ DirectoryResponse
    \/ PlanningResponse
    \/ SecondCompletion
    \/ Speech

SpecGPT == Init /\ [][NextGPT]_vars

NextConc ==
    \/ Tick
    \/ \E i \in 1..NThreads : Call(i) \/ Fetched(i) \/ Again(i)

SpecConc == Init /\ [][NextConc]_vars

NextPure == Calculate

SpecPure == InitPure /\ [][NextPure]_vars

(***************************************************************************)
(* Properties.                                                             *)
(***************************************************************************)

\* C9 calendar facts, computed apart from strptime and weekday():
\* the dates of 2023 and 2024, their order, and the day of the week by
\* Sakamoto's rule (0 = Sunday)
CalendarDates ==
    { <<y, m, d>> : y \in {2023, 2024}, m \in 1..12, d \in 1..31 }

IsDate(date) == date[3] <= DaysInMonth(date[1], date[2])

DateLeq(a, b) ==
    \/ a[1] < b[1]
    \/ a[1] = b[1] /\ a[2] < b[2]
    \/ a[1] = b[1] /\ a[2] = b[2] /\ a[3] <= b[3]

MonthShift == <<0, 3, 2, 5, 0, 3, 5, 1, 4, 6, 2, 4>>

DayOfWeek(date) ==
    LET y == IF date[2] < 3 THEN date[1] - 1 ELSE date[1]
    IN  (y + (y \div 4) - (y \div 100) + (y \div 400) + MonthShift[date[2]] + date[3]) % 7

WorkingDays(from_date, to_date) ==
    { d \in CalendarDates :
        IsDate(d) /\ DateLeq(from_date, d) /\ DateLeq(d, to_date) /\ DayOfWeek(d) \in 1..5 }

\* C9: calculate_hours returns 8 hours for every Monday-to-Friday date from
\* from_date to to_date, both included, and 0 when from_date is after
\* to_date; so 8 or 0 for one day, and 40 for any 7 days in a row.
C9_BusinessHours ==
    pure.done =>
        /\ pure.hours = 8 * Cardinality(WorkingDays(pure.from_date, pure.to_date))
        /\ (~DateLeq(pure.from_date, pure.to_date) => pure.hours = 0)
        /\ (pure.from_date = pure.to_date =>
               pure.hours = IF DayOfWeek(pure.from_date) \in 1..5 THEN 8 ELSE 0)
        /\ (pure.from_date = Mon /\ pure.to_date = Sun => pure.hours = 40)
        /\ (Cardinality({ d \in CalendarDates :
                            IsDate(d) /\ DateLeq(pure.from_date, d)
                                      /\ DateLeq(d, pure.to_date) }) = 7
               => pure.hours = 40)

\* C9 witness: a range over a weekend and a month end has been computed
C9_Witness ==
    /\ pure.done
    /\ pure.from_date = <<2024, 6, 28>>
    /\ pure.to_date = <<2024, 7, 2>>
    /\ pure.hours = 24

\* C1: of two get_employees() calls in a row, the first one answered 200
\* or served from the cache: a second call inside the TTL window of the
\* entry the first one left issues no fetch and is served that entry; a
\* second call at or after the entry's expiry issues a fetch.
C1_OneFetchPerWindow ==
    Len(geLog) = 2 /\ geLog[1].ok =>
        /\ (geLog[2].t < geLog[1].expires =>
               ~geLog[2].fetched /\ geLog[2].expires = geLog[1].expires)
        /\ (geLog[2].t >= geLog[1].expires => geLog[2].fetched)

\* C1 witness: a call after the expiry of the entry fetched again, with
\* success; the entry it stored lives for TTL from now
C1_Witness ==
    /\ Len(geLog) = 2
    /\ geLog[1].ok
    /\ geLog[2].t >= geLog[1].expires
    /\ geLog[2].fetched
    /\ geLog[2].ok
    /\ geLog[2].expires = now + TTL

\* a name that matches no employee of any listing
NoMatch(name) == \A v \in 1..Len(Directories) : ByName(Directories[v], name) = PyInt(-1)

\* C6 (as claimed): check_employee_availability with a name that matches no
\* employee, the directory being reachable, returns the error record
\* {'error': 'Employee not found.'} and fetches no planning.
C6_NotFoundRecord ==
    ( /\ q.fn = "check_employee_availability"
      /\ NoMatch(q.arg)
      /\ q.pc \in {"returned", "raised"}
      /\ q.exc # "HTTPError" )
    => (q.pc = "returned" /\ q.ret = NotFound /\ q.nPlan = 0)

\* C7 (as claimed): every record check_availability emits for an employee
\* absent from the planning map has the amount "0%".
C7_AmountZero ==
    q.fn = "check_availability" =>
        \A i \in 1..Len(q.out) :
            "amount" \in DOMAIN q.out[i] => q.out[i]["amount"] = PyStr(<<"0", "%">>)

\* the exact floor of total / hours * 100, and 0 when hours is 0
FloorPercent(total, hours) == IF hours = 0 THEN 0 ELSE (total * 100) \div hours

\* C8 (as claimed): the record of an employee present in the planning map
\* has amount_occupied = floor(total / business_hours * 100) percent (0 when
\* business_hours is 0) and amount_free = 100 - amount_occupied percent.
C8_OccupiedIsFloor ==
    q.fn = "check_availability" =>
        \A i \in 1..Len(q.out) :
            IntStr(q.emps.v[i]) \in DOMAIN q.plan =>
                LET total == Sum(q.plan[IntStr(q.emps.v[i])])
                    hours == 8 * Cardinality(WorkingDays(q.rng[1], q.rng[2]))
                    occupied == FloorPercent(total, hours)
                IN  /\ q.out[i]["amount_occupied"] = PyStr(IntStr(occupied) \o <<"%">>)
                    /\ q.out[i]["amount_free"] = PyStr(IntStr(100 - occupied) \o <<"%">>)

\* C10: a status other than 200 from either fetch ends the query with
\* HTTPError: no records are returned, the route answers 500, that fetch
\* was the only one answered with a failure in the query, the step of the
\* failure leaves the cache as it was, after a failed fetch of the listing
\* no listing is served from the cache at that time, and the
\* get_employees() call that follows a failed one fetches again.
C10_FailureState ==
    /\ q.nFail <= 1
    /\ (q.nFail = 1 <=> (q.pc = "raised" /\ q.exc = "HTTPError"))
    /\ (q.nFail = 1 =>
           /\ q.ret = PyNone
           /\ req = Answer("availability", 500, Error(<<"HTTPError">>)))
    /\ (Len(geLog) = 2 /\ ~geLog[1].ok => geLog[2].fetched)

C10_FailureStep ==
    (q'.nFail = 1 /\ q.pc \in {"dir", "plan"}) =>
        /\ cache' = cache
        /\ (q.pc = "dir" => ~Live(cache', KeyAll, now'))

C10_UpstreamFailure == []C10_FailureState /\ [][C10_FailureStep]_vars

\* C10 witness: the listing fetch failed, and the next call fetched again
C10_Witness ==
    /\ Len(geLog) = 2
    /\ ~geLog[1].ok
    /\ geLog[2].fetched
    /\ geLog[2].ok
    /\ q.nFail = 0
    /\ q.nDir = 1

(***************************************************************************)
(* Concurrent callers of get_employees().                                  *)
(***************************************************************************)
Fetching == { i \in 1..NThreads : threads[i].pc = "fetch" }

\* C2: under any interleaving of concurrent get_employees() callers that
\* start while the directory entry is missing or expired, at most one
\* upstream fetch is in flight for the key (single-flight).
C2_SingleFlight == Cardinality(Fetching) <= 1

(***************************************************************************)
(* The conversation orchestrator.                                          *)
(***************************************************************************)
\* C3: when the first completion carries no tool call, the text of that
\* response is returned as the final answer and no second completion is
\* issued.
C3_TextIsAnswer ==
    (g.pc = "returned" /\ g.first.sent /\ g.response.tool_calls = <<>>)
        => (g.ret = g.response.content /\ ~g.second.sent)

\* the i-th tool call is one the loop cannot dispatch
BadCall(tool_call) ==
    \/ tool_call.name \notin {"check_availability", "check_employee_availability"}
    \/ ~JsonLoads(tool_call.arguments).ok

\* C4: when the first completion requests n >= 1 tool calls and every
\* dispatch succeeds, the second request carries the initial messages, then
\* the assistant's tool-call message, then one tool message per requested
\* call in the requested order (the i-th with the i-th call's id and name),
\* and offers no tools.
C4_SecondRequest ==
    g.second.sent =>
        LET n == Len(g.response.tool_calls)
            m == g.second.messages
            base == Len(g.initial)
        IN  /\ n >= 1
            /\ g.second.tools = <<>>
            /\ Len(m) = base + 1 + n
            /\ SubSeq(m, 1, base) = g.initial
            /\ g.initial = g.first.messages
            /\ m[base + 1] = g.response
            /\ \A i \in 1..n :
                 /\ m[base + 1 + i].role = "tool"
                 /\ m[base + 1 + i].tool_call_id = g.response.tool_calls[i].id
                 /\ m[base + 1 + i].name = g.response.tool_calls[i].name
            /\ \A i, j \in 1..n :
                 i # j => g.response.tool_calls[i].id # g.response.tool_calls[j].id

\* two calls were requested, both were dispatched, and the second request
\* is out with their two results in order
C4_Witness ==
    /\ g.pc = "second"
    /\ g.second.sent
    /\ Len(g.response.tool_calls) = 2
    /\ g.response.tool_calls[1].name = "check_employee_availability"
    /\ g.response.tool_calls[2].name = "check_availability"
    /\ Len(g.second.messages) = 4
    /\ g.second.messages[3].tool_call_id = CallId(1)
    /\ g.second.messages[4].tool_call_id = CallId(2)
    /\ g.second.messages[3].name = "check_employee_availability"

\* C5: if any requested tool call names a function outside the dispatch
\* table or carries arguments that are not parseable JSON, the request
\* fails: no second completion is issued and no final answer is returned,
\* however many earlier calls of the response were dispatched.
C5_BadCallIsFatal ==
    (\E i \in 1..Len(g.response.tool_calls) : BadCall(g.response.tool_calls[i]))
        => /\ ~g.second.sent
           /\ g.pc \notin {"second", "returned"}
           /\ req.pc # "speech"
           /\ req.pc = "done" => (req.status = 500 /\ "txt" \notin DOMAIN req.body.v)
           /\ g.pc = "raised" =>
                /\ req = Answer("testgpt", 500, Error(<<g.exc>>))
                /\ g.exc \in {"KeyError", "JSONDecodeError"} =>
                     BadCall(g.response.tool_calls[g.k])

\* the first call was dispatched and answered, the second one is unknown to
\* the dispatch table: the request ended with status 500
C5_Witness ==
    /\ g.pc = "raised"
    /\ g.exc = "KeyError"
    /\ g.k = 2
    /\ ~BadCall(g.response.tool_calls[1])
    /\ Len(g.messages) = 3
    /\ g.messages[3].role = "tool"
    /\ ~g.second.sent
    /\ req.pc = "done"
    /\ req.status = 500

\* the same with arguments cut short: json.loads raises
C5_WitnessJson ==
    /\ g.pc = "raised"
    /\ g.exc = "JSONDecodeError"
    /\ g.k = 2
    /\ Len(g.messages) = 3
    /\ req.status = 500

(***************************************************************************)
(* The derived lookups and the listing they were computed from.            *)
(***************************************************************************)
\* what the lookups that use key k return on the listing employees
DerivedFrom(k, employees) ==
    IF k.ty = "int" THEN { NameById(employees, k.i) }
    ELSE { FromPractice(employees, k.s), ByName(employees, k.s) }

\* the derived entries the cache serves now
LiveDerived == { k \in DOMAIN cache : k # KeyAll /\ Live(cache, k, now) }

\* C11: once the listing has been fetched again, every lookup by practice,
\* by name or by id returns a result derived from the new listing: an
\* entry the cache serves is what its lookup computes on the listing the
\* cache serves.
C11_DerivedFollowListing ==
    Live(cache, KeyAll, now) =>
        \A k \in LiveDerived : cache[k].value \in DerivedFrom(k, cache[KeyAll].value.v)

(***************************************************************************)
(* The employee query against the practice query.                          *)
(***************************************************************************)
\* the employee query returned its list for an employee it found
EmployeeAnswered ==
    /\ q.fn = "check_employee_availability"
    /\ q.pc = "returned"
    /\ q.ret.ty = "list"

\* C12: for an employee found in the directory, check_employee_availability
\* returns exactly one record, and on the same date range and planning data
\* that record has the fields and the occupied/free values of the record
\* check_availability emits for that employee.
C12_SameRecord ==
    EmployeeAnswered =>
        LET theirs == PracticeRecord(PyStr(q.arg), q.id.v, q.plan, q.rng)
        IN  /\ Len(q.ret.v) = 1
            /\ DOMAIN q.ret.v[1] = DOMAIN theirs
            /\ \A field \in {"amount_occupied", "amount_free"} :
                 q.ret.v[1][field] = theirs[field]

(***************************************************************************)
(* A tool call for an employee nobody matches.                             *)
(***************************************************************************)
\* the tool function of the current call returned the not-found record
ToolSaidNotFound ==
    /\ req.route = "testgpt"
    /\ q.fn = "check_employee_availability"
    /\ q.pc = "returned"
    /\ q.ret = NotFound

\* C13: a check_employee_availability tool call whose employee is not found
\* is a normal branch of the orchestrator: the request does not fail and a
\* tool message is appended for that call.
C13_NotFoundIsNormal ==
    ToolSaidNotFound =>
        /\ g.pc # "raised"
        /\ \E j \in 1..Len(g.response.tool_calls), i \in 1..Len(g.messages) :
             /\ g.response.tool_calls[j].name = "check_employee_availability"
             /\ NoMatch(JsonLoads(g.response.tool_calls[j].arguments).v["employee_name"])
             /\ "tool_call_id" \in DOMAIN g.messages[i]
             /\ g.messages[i].tool_call_id = g.response.tool_calls[j].id

(***************************************************************************)
(* One cache for the four lookups.                                         *)
(***************************************************************************)
\* C14: a value cached by one kind of lookup is never returned by another
\* kind: what check_availability gets from get_employees_from_practice is a
\* list of ids, and what check_employee_availability gets from
\* get_employee_by_name is an id or -1, so neither fails on the type of the
\* other's value.
C14_OwnResult ==
    /\ q.fn = "check_availability" => q.emps.ty \in {"None", "list"}
    /\ q.fn = "check_employee_availability" => q.id.ty \in {"None", "int"}
    /\ q.pc = "raised" => q.exc # "TypeError"
====
